---------------------------- MODULE Spec2Model ----------------------------
(***************************************************************************)
(* Model of pytr's document download pipeline (src/pytr/dl.py, class DL):  *)
(* the queue builder dl_doc, the fetch stage work_responses, the history   *)
(* ledger on disk and the buffered file handles in between, over several   *)
(* sequential runs of the process against the same output directory.       *)
(*                                                                         *)
(* Strings that the code cuts apart (URLs) are sequences of one-character  *)
(* strings; the ledger file is the sequence of its characters.  A document *)
(* file on disk is "absent", "partial" (it exists, its content is empty or *)
(* incomplete) or "full".                                                  *)
(***************************************************************************)
EXTENDS Naturals, Sequences, FiniteSets, TLC

(***************************************************************************)
(* Bounds of the model.                                                    *)
(***************************************************************************)
\* messages the timeline walk receives in one run (each timelineDetail
\* message brings one document to dl_doc)
MaxDocs == 2
\* characters of a document title
MaxTitle == 4
\* messages of an unmatched type that details_loop receives
MaxUnmatched == 2
\* sequential runs of the process against the same output directory
MaxRuns == 2

(***************************************************************************)
(* Inputs.                                                                 *)
(***************************************************************************)
\* target paths as dl_doc derives them (dl.py 72-108), after sanitization
Paths == {"p1", "p2"}
\* fetch URLs: two query tokens of one base, and a URL without a query
Urls == { <<"a", "?", "s">>, <<"a", "?", "t">>, <<"b">> }
\* the URLs a second walk may present in place of the first walk's
TwinUrls == Urls \cup { <<"a">>, <<"b", "?", "s">>, <<"a", "?", "s", "?", "t">> }
Descriptors == [filepath : Paths, doc_url : Urls]
\* what self.tr.recv() yields: the subscription type, and for a
\* timelineDetail response the document it names
NoDoc == [filepath |-> "none", doc_url |-> << >>]
Messages == { [type |-> "timelineDetail", doc |-> d] : d \in Descriptors }
            \cup { [type |-> "timeline", doc |-> NoDoc],
                   [type |-> "neonNews", doc |-> NoDoc] }
Streams == UNION { [1..n -> Messages] : n \in 0..MaxDocs }
\* ledger files a previous installation may have left
OldLedgers == { <<>>, <<"a", "\n">>, <<"b", "\n">> }

VARIABLES
    stream,            \* the messages the walk receives, in arrival order
    pos,               \* how many of them this run has received
    run,               \* number of the current run of the process
    prev,              \* whether the previous run ended in exit(0) ("exit0")
                       \* or otherwise ("stopped"); "none" in the first run
    pc,                \* position of the process
    disk,              \* disk[p]: state of the file at target path p
    history_exists,    \* the ledger file exists on disk
    history_disk,      \* the characters of the ledger file on disk
    history_len0,      \* length of the ledger file when the run started
    history_open,      \* work_responses has opened the ledger for append
    history_buf,       \* strings written to the ledger handle, not yet on disk
    filepaths,         \* self.filepaths
    doc_urls,          \* self.doc_urls
    doc_urls_history,  \* self.doc_urls_history
    futures,           \* self.futures, with each job's progress
    done,              \* self.done
    cur,               \* index of the future the fetch loop is working on
    decision,          \* outcome of the last dl_doc call
    twin,              \* a second walk fed the same documents under other
                       \* query strings (used by SpecPair only)
    sent,              \* requests the walk has sent to the transport
    txn,               \* an event and what from_event yields for it
                       \* (used by SpecEvent only)
    naming,            \* a document title and what dl_doc makes of it
                       \* (used by SpecNaming only)
    details            \* the state of Details.details_loop
                       \* (used by SpecDetails only)

vars == << stream, pos, run, prev, pc, disk, history_exists, history_disk,
           history_len0, history_open, history_buf, filepaths, doc_urls,
           doc_urls_history, futures, done, cur, decision, twin, sent, txn, naming, details >>

persistent == << stream, disk, history_exists, history_disk >>
memory == << filepaths, doc_urls, doc_urls_history, futures, done, cur >>

Range(s) == { s[i] : i \in 1..Len(s) }

(***************************************************************************)
(* str.split(sep)[0] as Python computes it: the string is cut at every     *)
(* separator and the first piece is taken.                                 *)
(***************************************************************************)
RECURSIVE split(_, _)
split(s, sep) ==
    IF \A i \in 1..Len(s) : s[i] # sep
    THEN << s >>
    ELSE LET k == CHOOSE i \in 1..Len(s) :
                      s[i] = sep /\ \A j \in 1..(i - 1) : s[j] # sep
         IN  << SubSeq(s, 1, k - 1) >> \o split(SubSeq(s, k + 1, Len(s)), sep)

doc_url_base_raw(doc_url) == doc_url

doc_url_base(doc_url) == split(doc_url, "?")[1]

\* Path.is_file(): a created but incomplete file is a regular file too
is_file(filepath) == disk[filepath] # "absent"

NoTwin == [filepaths |-> << >>, doc_urls |-> << >>, futures |-> << >>,
           decision |-> "None"]

\* the document fetched and stored by dl_doc itself, before it returns
NewFuture_fetched(filepath, doc_url) ==
    [url |-> doc_url, filepath |-> filepath,
     doc_url_base |-> doc_url_base(doc_url), st |-> "ok", prog |-> "closed"]

\* future = self.session.get(doc_url) with its attributes (dl.py 127-129)
NewFuture(filepath, doc_url) ==
    [url |-> doc_url, filepath |-> filepath,
     doc_url_base |-> doc_url_base(doc_url), st |-> "pending", prog |-> "queued"]


Outcome(s, filepath, doc_url, verdict) ==
    [filepaths |-> s.filepaths, doc_urls |-> s.doc_urls,
     futures |-> s.futures, decision |-> verdict]

(***************************************************************************)
(* Faulty variants of dl_doc's dedup cascade, used to show that the        *)
(* properties below depend on it.                                          *)
(***************************************************************************)
\* the URL checks made before the on-disk check
dl_doc_result_urlfirst(s, filepath, doc_url) ==
    IF filepath \in Range(s.filepaths)
    THEN Outcome(s, filepath, doc_url, "SkippedPathDuplicate")
    ELSE LET seen == [s EXCEPT !.filepaths = Append(@, filepath)]
             base == doc_url_base(doc_url)
         IN  IF base \in Range(s.doc_urls)
             THEN Outcome(seen, filepath, doc_url, "SkippedUrlDuplicate")
             ELSE IF base \in Range(doc_urls_history)
             THEN Outcome(seen, filepath, doc_url, "SkippedUrlInHistory")
             ELSE IF is_file(filepath)
             THEN Outcome(seen, filepath, doc_url, "SkippedPathExists")
             ELSE Outcome([seen EXCEPT !.doc_urls = Append(@, base),
                                     !.futures = Append(@, NewFuture(filepath, doc_url))],
                        filepath, doc_url, "Queued")

\* the path is never registered as seen
dl_doc_result_noregister(s, filepath, doc_url) ==
    IF filepath \in Range(s.filepaths)
    THEN Outcome(s, filepath, doc_url, "SkippedPathDuplicate")
    ELSE IF is_file(filepath) = FALSE
         THEN LET base == doc_url_base(doc_url)
              IN  IF base \in Range(s.doc_urls)
                  THEN Outcome(s, filepath, doc_url, "SkippedUrlDuplicate")
                  ELSE IF base \in Range(doc_urls_history)
                  THEN Outcome(s, filepath, doc_url, "SkippedUrlInHistory")
                  ELSE Outcome([s EXCEPT !.doc_urls = Append(@, base),
                                       !.futures = Append(@, NewFuture(filepath, doc_url))],
                             filepath, doc_url, "Queued")
         ELSE Outcome(s, filepath, doc_url, "SkippedPathExists")

\* the URL is registered as seen before the history is looked at
dl_doc_result_urlregistered(s, filepath, doc_url) ==
    IF filepath \in Range(s.filepaths)
    THEN Outcome(s, filepath, doc_url, "SkippedPathDuplicate")
    ELSE LET seen == [s EXCEPT !.filepaths = Append(@, filepath)]
         IN  IF is_file(filepath) = FALSE
             THEN LET base == doc_url_base(doc_url)
                      noted == [seen EXCEPT !.doc_urls = Append(@, base)]
                  IN  IF base \in Range(seen.doc_urls)
                      THEN Outcome(seen, filepath, doc_url, "SkippedUrlDuplicate")
                      ELSE IF base \in Range(doc_urls_history)
                      THEN Outcome(noted, filepath, doc_url, "SkippedUrlInHistory")
                      ELSE Outcome([noted EXCEPT
                                        !.futures = Append(@, NewFuture(filepath, doc_url))],
                                 filepath, doc_url, "Queued")
             ELSE Outcome(seen, filepath, doc_url, "SkippedPathExists")

(***************************************************************************)
(* DL.dl_doc from the point where filepath is known (dl.py 110-133), as a  *)
(* function of the walk's lists s = [filepaths, doc_urls, futures]; it     *)
(* reads the disk and the loaded history.  The decision names the branch   *)
(* taken (the code tells them apart by its log line).                      *)
(***************************************************************************)
dl_doc_result(s, filepath, doc_url) ==
    IF filepath \in Range(s.filepaths)
    THEN Outcome(s, filepath, doc_url, "SkippedPathDuplicate")
    ELSE LET seen == [s EXCEPT !.filepaths = Append(@, filepath)]
         IN  IF is_file(filepath) = FALSE
             THEN LET base == doc_url_base(doc_url)
                  IN  IF base \in Range(seen.doc_urls)
                      THEN Outcome(seen, filepath, doc_url, "SkippedUrlDuplicate")
                      ELSE IF base \in Range(doc_urls_history)
                      THEN Outcome(seen, filepath, doc_url, "SkippedUrlInHistory")
                      ELSE Outcome([seen EXCEPT !.doc_urls = Append(@, base),
                                              !.futures = Append(@, NewFuture(filepath, doc_url))],
                                 filepath, doc_url, "Queued")
             ELSE Outcome(seen, filepath, doc_url, "SkippedPathExists")

(***************************************************************************)
(* str.splitlines() as Python computes it on text whose only line break is *)
(* '\n': the pieces between line breaks, without a last empty piece.       *)
(***************************************************************************)
RECURSIVE splitlines(_)
splitlines(text) ==
    IF text = << >>
    THEN << >>
    ELSE IF \A i \in 1..Len(text) : text[i] # "\n"
    THEN << text >>
    ELSE LET k == CHOOSE i \in 1..Len(text) :
                      text[i] = "\n" /\ \A j \in 1..(i - 1) : text[j] # "\n"
         IN  << SubSeq(text, 1, k - 1) >> \o splitlines(SubSeq(text, k + 1, Len(text)))

\* the strings of a list one after the other
RECURSIVE concat(_)
concat(strings) ==
    IF strings = << >> THEN << >> ELSE Head(strings) \o concat(Tail(strings))

\* load_history reading nothing
load_history_lines_unread == << >>

\* load_history (dl.py 42-44): the lines of the ledger file, if it exists
load_history_lines == IF history_exists THEN splitlines(history_disk) ELSE << >>

\* the ledger record written without its line break
history_line_unterminated(key) == key

\* f'{future.doc_url_base}\n' (dl.py 154)
history_line(key) == key \o << "\n" >>

\* the empty-queue test made on the list of seen paths
nothing_to_download_by_paths == Len(filepaths) = 0

\* work_responses' empty-queue test (dl.py 139)
nothing_to_download == Len(doc_urls) = 0

\* a ledger write that is lost
history_file_write_lost(buf, line) == buf

\* history_file.write(line) (dl.py 154): the string joins the handle's buffer
history_file_write(buf, line) == Append(buf, line)

\* any other subscription type handled like a timeline page
dispatch_else_timeline(type) ==
    IF type = "timelineDetail" THEN "timelineDetail" ELSE "timeline"

\* dl_loop's dispatch on subscription['type'] (dl.py 61-66)
dispatch(type) ==
    IF type = "timeline" THEN "timeline"
    ELSE IF type = "timelineDetail" THEN "timelineDetail"
    ELSE "unmatched"

\* the response checked for its HTTP status (raise_for_status)
result_raises_for_status(st) == st # "ok"

\* future.result() (dl.py 149) raises what the GET raised, nothing else
result_raises(st) == st = "failed"

\* the exit taken as soon as one job is done
all_done_first == done >= 1

\* the completion test of dl.py 158
all_done == done = Len(doc_urls)

\* the ledger opened for writing: the file is emptied
open_history_truncate(content) == << >>

\* history_file.open('a') (dl.py 143): the content stays, writes go to its end
open_history_append(content) == content

(***************************************************************************)
(* The document type and number dl_doc takes from doc['title'] (dl.py      *)
(* 89-96).  A title is a string over a letter, a decimal digit, the        *)
(* character U+00BD (one half, written "1/2" here) and the space.          *)
(***************************************************************************)
TitleChars == {"K", "2", "1/2", " "}
Titles == UNION { [1..n -> TitleChars] : n \in 0..MaxTitle }
\* the characters of the alphabet that int() accepts
DecimalChars == {"2"}
\* the characters of the alphabet that str.isnumeric() accepts
NumericChars == {"2", "1/2"}

\* str.isnumeric(): not empty, and every character is numeric
isnumeric(token) ==
    token # << >> /\ \A i \in 1..Len(token) : token[i] \in NumericChars

\* str.rsplit(' ') with no maxsplit cuts at every space, as split does
rsplit(title) == split(title, " ")

\* the pieces put together with nothing between them
join_plain(sep, tokens) == concat(tokens)

\* sep.join(tokens)
RECURSIVE join(_, _)
join(sep, tokens) ==
    IF tokens = << >> THEN << >>
    ELSE IF Len(tokens) = 1 THEN tokens[1]
    ELSE tokens[1] \o << sep >> \o join(sep, Tail(tokens))

\* dl.py 89-96: doc_type and doc_type_num (the template's doc_num)
doc_type_of(title) ==
    LET tokens == rsplit(title)
        last == tokens[Len(tokens)]
    IN  IF isnumeric(last) = TRUE
        THEN [doc_type |-> join(" ", SubSeq(tokens, 1, Len(tokens) - 1)),
              doc_type_num |-> << " " >> \o last]
        ELSE [doc_type |-> join(" ", tokens), doc_type_num |-> << >>]

NoNaming == [called |-> FALSE, title |-> << >>,
             doc_type |-> << >>, doc_type_num |-> << >>]

(***************************************************************************)
(* TransactionExporter.from_event (transactions.py 108-267).  An event is  *)
(* its event_type, the sign of its value, whether it has shares2, and its  *)
(* note; "None" is Python's None.  A transaction is its type and the sign  *)
(* of its value.                                                           *)
(***************************************************************************)
EventTypes == {"None", "TRADE_INVOICE", "SPINOFF", "SAVEBACK",
               "PRIVATE_MARKETS_ORDER", "SWAP", "DEPOSIT"}
Events == [event_type : EventTypes,
           value : {"None", "neg", "zero", "pos"},
           shares2 : {"None", "zero", "pos"},
           note : {"None", "1 % Bonus", "BYD"}]

\* self._decimal_format(-event.value)
negated(value) ==
    IF value = "neg" THEN "pos" ELSE IF value = "pos" THEN "neg" ELSE value

\* PPEventType.BUY if value < 0 else PPEventType.SELL
buy_or_sell(value) == IF value = "neg" THEN "BUY" ELSE "SELL"

Yields(transactions) == [yielded |-> transactions, raised |-> FALSE]
assert_fails == [yielded |-> << >>, raised |-> TRUE]

from_event(event) ==
    LET kwargs == [type |-> IF event.event_type \in {"SPINOFF", "SWAP", "DEPOSIT"}
                            THEN event.event_type ELSE "None",
                   value |-> event.value]
    IN  IF event.event_type = "None" THEN Yields(<< >>)
        ELSE IF event.event_type = "TRADE_INVOICE" THEN
            IF event.value = "None" THEN assert_fails
            ELSE IF event.shares2 = "pos"
            THEN Yields(<< [kwargs EXCEPT !.type = buy_or_sell(event.value)],
                           [type |-> buy_or_sell("zero"), value |-> "zero"] >>)
            ELSE Yields(<< [kwargs EXCEPT !.type = buy_or_sell(event.value)] >>)
        ELSE IF event.event_type = "SPINOFF" THEN
            IF event.shares2 = "pos"
            THEN Yields(<< [kwargs EXCEPT !.type = "SELL"], kwargs >>)
            ELSE Yields(<< kwargs >>)
        ELSE IF event.event_type = "SAVEBACK" THEN
            IF event.value = "None" THEN assert_fails
            ELSE Yields(<< [kwargs EXCEPT !.type = "BUY"],
                           [type |-> "DEPOSIT", value |-> negated(event.value)] >>)
        ELSE IF event.event_type = "PRIVATE_MARKETS_ORDER" THEN
            IF event.value = "None" THEN assert_fails
            ELSE IF event.note = "1 % Bonus"
            THEN Yields(<< [kwargs EXCEPT !.type = buy_or_sell(event.value)],
                           [type |-> "DEPOSIT", value |-> negated(event.value)] >>)
            ELSE Yields(<< [kwargs EXCEPT !.type = buy_or_sell(event.value)] >>)
        ELSE Yields(<< kwargs >>)

NoTxn == [called |-> FALSE,
          event |-> [event_type |-> "None", value |-> "None",
                     shares2 |-> "None", note |-> "None"],
          out |-> Yields(<< >>)]

(***************************************************************************)
(* Details.details_loop (details.py 11-52): six requests are sent, then    *)
(* messages are received until the counter recv reaches six.               *)
(***************************************************************************)
DetailTypes == {"stockDetails", "neonNews", "ticker", "performance",
                "instrument", "instrumentSuitability"}
\* what self.tr.recv() may yield: one of the six types or another one
DetailMessages == DetailTypes \cup {"timeline"}
\* the count at which details_loop returns (details.py 51)
Subscribed == 6

\* the branches of details.py 31-49 that add one to recv
counts(type) == type \in DetailTypes

NoDetails == [pc |-> "idle", recv |-> 0, stored |-> {}, unmatched |-> 0]

Live == {"dl_loop_start", "dl_loop", "work_responses", "as_completed", "result", "open",
         "write", "incr", "hist_write", "close", "check_done"}
Terminal == {"exit0", "error", "killed", "interrupted", "returned"}

Init ==
    /\ stream \in Streams
    /\ pos = 0
    /\ run = 1
    /\ prev = "none"
    /\ pc = "start"
    /\ disk \in [Paths -> {"absent", "full"}]
    /\ history_exists \in BOOLEAN
    /\ history_disk \in (IF history_exists THEN OldLedgers ELSE { << >> })
    /\ history_len0 = Len(history_disk)
    /\ history_open = FALSE
    /\ history_buf = << >>
    /\ filepaths = << >>
    /\ doc_urls = << >>
    /\ doc_urls_history = << >>
    /\ futures = << >>
    /\ done = 0
    /\ cur = 0
    /\ decision = "None"
    /\ twin = NoTwin
    /\ sent = 0
    /\ txn = NoTxn
    /\ naming = NoNaming
    /\ details = NoDetails

(***************************************************************************)
(* DL.__init__ (dl.py 16-39) with load_history (dl.py 41-49).              *)
(***************************************************************************)
DL_init ==
    /\ pc = "start"
    /\ pc' = "dl_loop_start"
    /\ filepaths' = << >>
    /\ doc_urls' = << >>
    /\ futures' = << >>
    /\ done' = 0
    /\ doc_urls_history' = load_history_lines
    /\ history_exists' = TRUE
    /\ history_len0' = Len(history_disk)
    /\ twin' = NoTwin
    /\ UNCHANGED << stream, pos, run, prev, disk, history_disk, history_open,
                    history_buf, cur, decision, sent, txn, naming, details >>

(***************************************************************************)
(* dl_loop sends the first timeline request (dl.py 52).                    *)
(***************************************************************************)
dl_loop_start ==
    /\ pc = "dl_loop_start"
    /\ pc' = "dl_loop"
    /\ sent' = sent + 1
    /\ UNCHANGED << persistent, memory, pos, run, prev, history_len0,
                    history_open, history_buf, decision, twin, txn, naming, details >>

(***************************************************************************)
(* dl_loop receives a timeline page (dl.py 55, 61-62): the walk asks the   *)
(* transport for what the page names (Timeline.get_next_timeline, as the   *)
(* specification describes it).                                            *)
(***************************************************************************)
timeline_msg ==
    /\ pc = "dl_loop"
    /\ pos < Len(stream)
    /\ dispatch(stream[pos + 1].type) = "timeline"
    /\ pos' = pos + 1
    /\ sent' = sent + 1
    /\ UNCHANGED << persistent, memory, run, prev, pc, history_len0,
                    history_open, history_buf, decision, twin, txn, naming, details >>

(***************************************************************************)
(* dl_loop receives a message of another type and logs it (dl.py 55,       *)
(* 65-66).                                                                 *)
(***************************************************************************)
unmatched_msg ==
    /\ pc = "dl_loop"
    /\ pos < Len(stream)
    /\ dispatch(stream[pos + 1].type) = "unmatched"
    /\ pos' = pos + 1
    /\ UNCHANGED << persistent, memory, run, prev, pc, history_len0,
                    history_open, history_buf, decision, twin, sent, txn, naming, details >>

(***************************************************************************)
(* dl_loop receives a timelineDetail response (dl.py 55, 63-64) and its    *)
(* document reaches dl_doc (dl.py 68-133; Timeline.timelineDetail calls it *)
(* for the document the response names).                                   *)
(***************************************************************************)
dl_doc_core ==
    /\ pc = "dl_loop"
    /\ pos < Len(stream)
    /\ dispatch(stream[pos + 1].type) = "timelineDetail"
    /\ LET d == stream[pos + 1].doc
           r == dl_doc_result([filepaths |-> filepaths, doc_urls |-> doc_urls,
                               futures |-> futures], d.filepath, d.doc_url)
       IN  /\ filepaths' = r.filepaths
           /\ doc_urls' = r.doc_urls
           /\ futures' = r.futures
           /\ decision' = r.decision
    /\ pos' = pos + 1
    /\ UNCHANGED << stream, run, prev, pc, disk, history_exists, history_disk,
                    history_len0, history_open, history_buf, doc_urls_history,
                    done, cur, sent, txn, naming, details >>

dl_doc ==
    /\ dl_doc_core
    /\ UNCHANGED twin

(***************************************************************************)
(* The walk has handed over its last document and work_responses is called *)
(* (the caller is Timeline, as the specification describes it).            *)
(***************************************************************************)
WalkEnds ==
    /\ pc = "dl_loop"
    /\ pos = Len(stream)
    /\ pc' = "work_responses"
    /\ UNCHANGED << persistent, memory, pos, run, prev, history_len0,
                    history_open, history_buf, decision, twin, sent, txn, naming, details >>

(***************************************************************************)
(* A GET submitted by session.get (dl.py 127) finishes on the session's    *)
(* worker threads, with a response or with an exception, at any time after *)
(* it was submitted.                                                       *)
(***************************************************************************)
FutureCompletes ==
    /\ pc \in Live
    /\ \E i \in 1..Len(futures), outcome \in {"ok", "http_error", "failed"} :
          /\ futures[i].st = "pending"
          /\ futures' = [futures EXCEPT ![i].st = outcome]
    /\ UNCHANGED << persistent, pos, run, prev, pc, history_len0, history_open,
                    history_buf, filepaths, doc_urls, doc_urls_history, done,
                    cur, decision, twin, sent, txn, naming, details >>

(***************************************************************************)
(* Closing the ledger handle (leaving `with`, dl.py 143, normally or by an *)
(* exception such as SystemExit) puts its buffered strings on disk.        *)
(***************************************************************************)
CloseHistory ==
    /\ history_disk' = history_disk \o concat(history_buf)
    /\ history_buf' = << >>
    /\ history_open' = FALSE

\* work_responses, dl.py 139-144
work_responses ==
    /\ pc = "work_responses"
    /\ IF nothing_to_download
       THEN /\ pc' = "exit0"
            /\ UNCHANGED << history_open, history_disk >>
       ELSE /\ pc' = "as_completed"
            /\ history_open' = TRUE
            /\ history_disk' = open_history_append(history_disk)
    /\ UNCHANGED << stream, disk, history_exists, memory, pos, run, prev,
                    history_len0,
                    history_buf, decision, twin, sent, txn, naming, details >>

(***************************************************************************)
(* for future in as_completed(self.futures) (dl.py 145-147): the loop      *)
(* blocks until a future that it has not yet yielded is complete; when     *)
(* every future has been yielded the loop and the `with` end.  The is_file *)
(* test of line 146 only logs.                                             *)
(***************************************************************************)
as_completed ==
    /\ pc = "as_completed"
    /\ IF \A i \in 1..Len(futures) : futures[i].prog # "queued"
       THEN /\ pc' = "returned"
            /\ CloseHistory
            /\ UNCHANGED << futures, cur >>
       ELSE /\ \E i \in 1..Len(futures) :
                  /\ futures[i].prog = "queued"
                  /\ futures[i].st # "pending"
                  /\ cur' = i
                  /\ futures' = [futures EXCEPT ![i].prog = "yielded"]
            /\ pc' = "result"
            /\ UNCHANGED << history_disk, history_buf, history_open >>
    /\ UNCHANGED << stream, disk, history_exists, pos, run, prev, history_len0,
                    filepaths, doc_urls, doc_urls_history, done, decision, twin, sent, txn, naming, details >>

\* r = future.result() (dl.py 149): the response, or the GET's exception
future_result ==
    /\ pc = "result"
    /\ IF ~result_raises(futures[cur].st)
       THEN /\ pc' = "open"
            /\ UNCHANGED << history_disk, history_buf, history_open >>
       ELSE /\ pc' = "error"
            /\ CloseHistory
    /\ UNCHANGED << stream, disk, history_exists, memory, pos, run, prev,
                    history_len0, decision, twin, sent, txn, naming, details >>

(***************************************************************************)
(* mkdir and open(filepath, 'wb') (dl.py 150-151): the file is created or  *)
(* truncated; either call may raise OSError.                               *)
(***************************************************************************)
open_file ==
    /\ pc = "open"
    /\ \E ok \in BOOLEAN :
          IF ok
          THEN /\ pc' = "write"
               /\ disk' = [disk EXCEPT ![futures[cur].filepath] = "partial"]
               /\ futures' = [futures EXCEPT ![cur].prog = "opened"]
               /\ UNCHANGED << history_disk, history_buf, history_open >>
          ELSE /\ pc' = "error"
               /\ CloseHistory
               /\ UNCHANGED << disk, futures >>
    /\ UNCHANGED << stream, history_exists, pos, run, prev, history_len0,
                    filepaths, doc_urls, doc_urls_history, done, cur,
                    decision, twin, sent, txn, naming, details >>

(***************************************************************************)
(* f.write(r.content) (dl.py 152) on a buffered binary handle: when it     *)
(* returns, the content is on disk in full or still (partly) in the        *)
(* handle's buffer; when it raises, the file stays incomplete and the      *)
(* exception closes both handles.                                          *)
(***************************************************************************)
write_content ==
    /\ pc = "write"
    /\ \E res \in {"buffered", "flushed", "raised"} :
          IF res = "raised"
          THEN /\ pc' = "error"
               /\ CloseHistory
               /\ UNCHANGED << disk, futures >>
          ELSE /\ pc' = "incr"
               /\ disk' = [disk EXCEPT ![futures[cur].filepath] =
                               IF res = "flushed" THEN "full" ELSE "partial"]
               /\ futures' = [futures EXCEPT ![cur].prog = "written"]
               /\ UNCHANGED << history_disk, history_buf, history_open >>
    /\ UNCHANGED << stream, history_exists, pos, run, prev, history_len0,
                    filepaths, doc_urls, doc_urls_history, done, cur,
                    decision, twin, sent, txn, naming, details >>

\* self.done += 1 (dl.py 153)
incr_done ==
    /\ pc = "incr"
    /\ done' = done + 1
    /\ pc' = "hist_write"
    /\ UNCHANGED << persistent, pos, run, prev, history_len0, history_open,
                    history_buf, filepaths, doc_urls, doc_urls_history,
                    futures, cur, decision, twin, sent, txn, naming, details >>

(***************************************************************************)
(* history_file.write(f'{future.doc_url_base}\n') (dl.py 154) on a         *)
(* buffered text handle: the string joins the buffer, and the write may    *)
(* drain the buffer's leading strings to disk (the buffer filled up).      *)
(***************************************************************************)
write_history ==
    /\ pc = "hist_write"
    /\ LET buf == history_file_write(history_buf,
                                     history_line(futures[cur].doc_url_base))
       IN  \E k \in 0..Len(buf) :
              /\ history_disk' = history_disk \o concat(SubSeq(buf, 1, k))
              /\ history_buf' = SubSeq(buf, k + 1, Len(buf))
    /\ futures' = [futures EXCEPT ![cur].prog = "appended"]
    /\ pc' = "close"
    /\ UNCHANGED << stream, disk, history_exists, pos, run, prev, history_len0,
                    history_open, filepaths, doc_urls, doc_urls_history, done,
                    cur, decision, twin, sent, txn, naming, details >>

\* leaving `with open(...) as f` (dl.py 151-156): f is flushed and closed
close_file ==
    /\ pc = "close"
    /\ disk' = [disk EXCEPT ![futures[cur].filepath] = "full"]
    /\ futures' = [futures EXCEPT ![cur].prog = "closed"]
    /\ pc' = "check_done"
    /\ UNCHANGED << stream, history_exists, history_disk, pos, run, prev,
                    history_len0, history_open, history_buf, filepaths,
                    doc_urls, doc_urls_history, done, cur, decision, twin, sent, txn, naming, details >>

(***************************************************************************)
(* if self.done == len(self.doc_urls): exit(0) (dl.py 158-160); SystemExit *)
(* leaves the `with`, which closes the ledger handle.                      *)
(***************************************************************************)
check_done ==
    /\ pc = "check_done"
    /\ IF all_done
       THEN /\ pc' = "exit0"
            /\ CloseHistory
       ELSE /\ pc' = "as_completed"
            /\ UNCHANGED << history_disk, history_buf, history_open >>
    /\ UNCHANGED << stream, disk, history_exists, memory, pos, run, prev,
                    history_len0, decision, twin, sent, txn, naming, details >>

(***************************************************************************)
(* The process is killed (SIGKILL, power loss): what the handles still     *)
(* buffer never reaches the disk.                                          *)
(***************************************************************************)
Kill ==
    /\ pc \in Live
    /\ pc' = "killed"
    /\ history_buf' = << >>
    /\ history_open' = FALSE
    /\ UNCHANGED << persistent, memory, pos, run, prev, history_len0,
                    decision, twin, sent, txn, naming, details >>

(***************************************************************************)
(* The process is interrupted (KeyboardInterrupt): the exception leaves    *)
(* the `with` blocks it is raised in, which close their handles: f with    *)
(* what f.write was given, the ledger with its buffered lines.             *)
(***************************************************************************)
Interrupt ==
    /\ pc \in Live
    /\ pc' = "interrupted"
    /\ disk' = IF pc \in {"incr", "hist_write", "close"}
               THEN [disk EXCEPT ![futures[cur].filepath] = "full"]
               ELSE disk
    /\ CloseHistory
    /\ UNCHANGED << stream, history_exists, memory, pos, run, prev,
                    history_len0, decision, twin, sent, txn, naming, details >>

\* the operator starts the program again on the same output directory
StartRun ==
    /\ pc \in Terminal
    /\ run < MaxRuns
    /\ run' = run + 1
    /\ prev' = IF pc = "exit0" THEN "exit0" ELSE "stopped"
    /\ pc' = "start"
    /\ pos' = 0
    /\ filepaths' = << >>
    /\ doc_urls' = << >>
    /\ doc_urls_history' = << >>
    /\ futures' = << >>
    /\ done' = 0
    /\ cur' = 0
    /\ decision' = "None"
    /\ history_len0' = Len(history_disk)
    /\ sent' = 0
    /\ UNCHANGED << persistent, history_open, history_buf, twin, txn, naming, details >>

Next ==
    \/ DL_init
    \/ dl_loop_start
    \/ timeline_msg
    \/ unmatched_msg
    \/ dl_doc
    \/ WalkEnds
    \/ FutureCompletes
    \/ work_responses
    \/ as_completed
    \/ future_result
    \/ open_file
    \/ write_content
    \/ incr_done
    \/ write_history
    \/ close_file
    \/ check_done
    \/ Kill
    \/ Interrupt
    \/ StartRun

Spec == Init /\ [][Next]_vars

(***************************************************************************)
(* Two walks side by side: both start in the same state and receive the    *)
(* same documents, the second under fetch URLs that differ from the        *)
(* first's at most from the first '?' on.                                  *)
(***************************************************************************)
FirstQuery(u) ==
    IF \E i \in 1..Len(u) : u[i] = "?"
    THEN CHOOSE i \in 1..Len(u) : u[i] = "?" /\ \A j \in 1..(i - 1) : u[j] # "?"
    ELSE Len(u) + 1

\* the DedupKey of the specification: the URL minus everything from '?' on
DedupKey(u) == SubSeq(u, 1, FirstQuery(u) - 1)

dl_doc_pair ==
    /\ dl_doc_core
    /\ LET d == stream[pos + 1].doc
       IN  \E u \in TwinUrls :
              /\ DedupKey(u) = DedupKey(d.doc_url)
              /\ twin' = dl_doc_result([filepaths |-> twin.filepaths,
                                        doc_urls |-> twin.doc_urls,
                                        futures |-> twin.futures],
                                       d.filepath, u)

NextPair ==
    \/ DL_init
    \/ dl_loop_start
    \/ timeline_msg
    \/ unmatched_msg
    \/ dl_doc_pair

SpecPair == Init /\ [][NextPair]_vars

(***************************************************************************)
(* The exporter on its own: no download is under way, and from_event is    *)
(* called with an event (export, transactions.py 280, calls it once per    *)
(* event).                                                                 *)
(***************************************************************************)
InitEvent ==
    /\ Init
    /\ stream = << >>
    /\ ~history_exists
    /\ disk = [p \in Paths |-> "absent"]

from_event_call ==
    /\ \E event \in Events :
          txn' = [called |-> TRUE, event |-> event, out |-> from_event(event)]
    /\ UNCHANGED << persistent, memory, pos, run, prev, pc, history_len0,
                    history_open, history_buf, decision, twin, sent,
                    naming, details >>

NextEvent == from_event_call

SpecEvent == InitEvent /\ [][NextEvent]_vars

(***************************************************************************)
(* dl_doc's naming on its own: dl_doc is called with a document of some    *)
(* title.                                                                  *)
(***************************************************************************)
dl_doc_naming ==
    /\ \E title \in Titles :
          naming' = [called |-> TRUE, title |-> title,
                     doc_type |-> doc_type_of(title).doc_type,
                     doc_type_num |-> doc_type_of(title).doc_type_num]
    /\ UNCHANGED << persistent, memory, pos, run, prev, pc, history_len0,
                    history_open, history_buf, decision, twin, sent, txn,
                    details >>

NextNaming == dl_doc_naming

SpecNaming == InitEvent /\ [][NextNaming]_vars

(***************************************************************************)
(* Details.details_loop on its own.                                        *)
(***************************************************************************)
\* recv = 0 and the six requests (details.py 12-19)
details_loop_start ==
    /\ details.pc = "idle"
    /\ details' = [details EXCEPT !.pc = "recv", !.recv = 0]
    /\ UNCHANGED << persistent, memory, pos, run, prev, pc, history_len0,
                    history_open, history_buf, decision, twin, sent, txn,
                    naming >>

\* one turn of the while loop (details.py 28-52)
details_recv ==
    /\ details.pc = "recv"
    /\ \E type \in DetailMessages :
          LET n == IF counts(type) THEN details.recv + 1 ELSE details.recv
          IN  /\ ~counts(type) => details.unmatched < MaxUnmatched
              /\ details' =
                    [pc |-> IF n = Subscribed THEN "returned" ELSE "recv",
                     recv |-> n,
                     stored |-> IF counts(type)
                                THEN details.stored \cup {type}
                                ELSE details.stored,
                     unmatched |-> IF counts(type) THEN details.unmatched
                                   ELSE details.unmatched + 1]
    /\ UNCHANGED << persistent, memory, pos, run, prev, pc, history_len0,
                    history_open, history_buf, decision, twin, sent, txn,
                    naming >>

NextDetails ==
    \/ details_loop_start
    \/ details_recv

SpecDetails == InitEvent /\ [][NextDetails]_vars

(***************************************************************************)
(* Properties.                                                             *)
(***************************************************************************)
\* the ledger lines on disk when the run started, and those added since
LedgerAtStart == splitlines(SubSeq(history_disk, 1, history_len0))
AddedOnDisk == splitlines(SubSeq(history_disk, history_len0 + 1, Len(history_disk)))
QueuedKeys(futs) == [i \in 1..Len(futs) |-> DedupKey(futs[i].url)]

\* the decision the specification's five ordered rules give for document d
Decide(d) ==
    IF d.filepath \in Range(filepaths) THEN "SkippedPathDuplicate"
    ELSE IF disk[d.filepath] # "absent" THEN "SkippedPathExists"
    ELSE IF DedupKey(d.doc_url) \in Range(doc_urls) THEN "SkippedUrlDuplicate"
    ELSE IF DedupKey(d.doc_url) \in Range(LedgerAtStart) THEN "SkippedUrlInHistory"
    ELSE "Queued"

\* a step in which a timelineDetail response brings a document to dl_doc
DlDocStep ==
    /\ pc = "dl_loop"
    /\ pos' = pos + 1
    /\ stream[pos + 1].type = "timelineDetail"

(* C1: every dl_doc call decides by the five rules in their order (seen     *)
(* path, file on disk, seen URL, URL in the ledger, else queued); the path  *)
(* is registered unless it was a seen path; a job and a seen URL are added  *)
(* exactly when the decision is Queued, so a document whose file is on disk *)
(* is never queued.                                                         *)
C1_DecisionOrder ==
    [][DlDocStep =>
        LET d == stream[pos + 1].doc
        IN  /\ decision' = Decide(d)
            /\ filepaths' = IF Decide(d) = "SkippedPathDuplicate"
                            THEN filepaths ELSE Append(filepaths, d.filepath)
            /\ IF Decide(d) = "Queued"
               THEN /\ Len(futures') = Len(futures) + 1
                    /\ futures'[Len(futures')].filepath = d.filepath
                    /\ futures'[Len(futures')].url = d.doc_url
                    /\ doc_urls' = Append(doc_urls, DedupKey(d.doc_url))
               ELSE /\ futures' = futures
                    /\ doc_urls' = doc_urls]_vars

\* a document with a novel URL is skipped because its file is on disk
C1_Witness ==
    /\ pc = "dl_loop"
    /\ pos > 0
    /\ decision = "SkippedPathExists"
    /\ stream[pos].type = "timelineDetail"
    /\ DedupKey(stream[pos].doc.doc_url) \notin Range(doc_urls) \cup Range(doc_urls_history)

(* C2: the job list never holds two jobs with the same target path or with  *)
(* the same DedupKey, and no DedupKey is written to the ledger twice in one *)
(* run.                                                                     *)
C2_OneJobPerPathAndKey ==
    /\ \A i, j \in 1..Len(futures) :
          i # j => /\ futures[i].filepath # futures[j].filepath
                   /\ DedupKey(futures[i].url) # DedupKey(futures[j].url)
    /\ LET added == AddedOnDisk \o splitlines(concat(history_buf))
       IN  \A i, j \in 1..Len(added) : i # j => added[i] # added[j]

\* one base URL under two query strings and two paths: one job, one line
C2_Witness ==
    /\ pc = "exit0"
    /\ Len(stream) = 2
    /\ \A i \in 1..2 : stream[i].type = "timelineDetail"
    /\ stream[1].doc.doc_url # stream[2].doc.doc_url
    /\ DedupKey(stream[1].doc.doc_url) = DedupKey(stream[2].doc.doc_url)
    /\ stream[1].doc.filepath # stream[2].doc.filepath
    /\ Len(futures) = 1
    /\ AddedOnDisk = << DedupKey(stream[1].doc.doc_url) >>

(* C3: two walks from the same state whose documents differ only in the     *)
(* query strings of their fetch URLs take the same decision at every call   *)
(* and keep the same seen paths, seen URLs and queued DedupKeys.            *)
C3_QueryBlind ==
    /\ decision = twin.decision
    /\ filepaths = twin.filepaths
    /\ doc_urls = twin.doc_urls
    /\ QueuedKeys(futures) = QueuedKeys(twin.futures)

\* the walks queued the same document under different URLs, then both
\* skipped another document of that base URL
C3_Witness ==
    /\ decision = "SkippedUrlDuplicate"
    /\ \E i \in 1..Len(futures) : futures[i].url # twin.futures[i].url

(* C4: no job is ever queued (no GET issued) for a DedupKey that was a line *)
(* of the ledger file when the run started.                                 *)
C4_HistoryNeverQueued ==
    \A i \in 1..Len(futures) :
        DedupKey(futures[i].url) \notin Range(LedgerAtStart)

\* in a second run, a document whose file is absent is skipped for its
\* ledger line
C4_Witness ==
    /\ run = 2
    /\ pc = "dl_loop"
    /\ pos > 0
    /\ decision = "SkippedUrlInHistory"
    /\ stream[pos].type = "timelineDetail"
    /\ disk[stream[pos].doc.filepath] = "absent"
    /\ DedupKey(stream[pos].doc.doc_url) \in Range(LedgerAtStart)

(* C5: a run that follows a run which ended with exit(0) queues no job and  *)
(* adds no line to the ledger.                                              *)
C5_SecondRunIdle ==
    (run > 1 /\ prev = "exit0") =>
        /\ futures = << >>
        /\ AddedOnDisk = << >>
        /\ history_buf = << >>

\* the first run downloaded something, and the second ran to its exit
C5_Witness ==
    /\ run = 2
    /\ prev = "exit0"
    /\ pc = "exit0"
    /\ pos = Len(stream)
    /\ Len(LedgerAtStart) >= 2

(* C6: a dl_doc call with a descriptor that this run has already handed to  *)
(* dl_doc is SkippedPathDuplicate and changes neither the job list nor the  *)
(* seen paths nor the seen URLs; a descriptor novel to the run, the disk    *)
(* and the ledger is Queued and adds one job.                               *)
C6_SameDescriptorTwice ==
    [][DlDocStep =>
        LET d == stream[pos + 1].doc
        IN  /\ (\E j \in 1..pos : stream[j] = stream[pos + 1]) =>
                   /\ decision' = "SkippedPathDuplicate"
                   /\ UNCHANGED << futures, filepaths, doc_urls >>
            /\ ( /\ d.filepath \notin Range(filepaths)
                 /\ disk[d.filepath] = "absent"
                 /\ DedupKey(d.doc_url) \notin Range(doc_urls)
                 /\ DedupKey(d.doc_url) \notin Range(LedgerAtStart) ) =>
                   /\ decision' = "Queued"
                   /\ Len(futures') = Len(futures) + 1]_vars

\* the same descriptor twice: queued, then skipped as a seen path
C6_Witness ==
    /\ pc = "dl_loop"
    /\ pos = 2
    /\ stream[1] = stream[2]
    /\ stream[1].type = "timelineDetail"
    /\ decision = "SkippedPathDuplicate"
    /\ Len(futures) = 1

(* C7: whenever a job's DedupKey is among the lines this run has put into   *)
(* the ledger file on disk, the job's file on disk is complete.             *)
C7_LedgerLineAfterFile ==
    \A i \in 1..Len(futures) :
        futures[i].doc_url_base \in Range(AddedOnDisk)
            => disk[futures[i].filepath] = "full"

(* C8: the completed counter never exceeds the number of lines this run has *)
(* put into the ledger file on disk: a job is counted only after its line   *)
(* is written and flushed.                                                  *)
C8_CountedAfterFlush ==
    done <= Len(AddedOnDisk)

(* C9: when a run has been stopped (killed or interrupted), the DedupKeys   *)
(* it added to the ledger file on disk are exactly those of the jobs whose  *)
(* files it wrote in full.                                                  *)
C9_LedgerMatchesFiles ==
    pc \in {"killed", "interrupted"} =>
        Range(AddedOnDisk) =
            { futures[i].doc_url_base :
                i \in { j \in 1..Len(futures) :
                          /\ futures[j].prog \in {"written", "appended", "closed"}
                          /\ disk[futures[j].filepath] = "full" } }

(* C10: with an empty job list after the walk, work_responses exits with    *)
(* success at once: the ledger is never opened for append and its content   *)
(* on disk stays as it was when the run started.                            *)
C10_EmptyQueueShortCircuit ==
    (futures = << >> /\ pc \notin {"start", "dl_loop_start", "dl_loop"}) =>
        /\ pc \in {"work_responses", "exit0", "killed", "interrupted"}
        /\ ~history_open
        /\ history_buf = << >>
        /\ AddedOnDisk = << >>

\* a walk that skipped every document it saw ended in exit(0)
C10_Witness ==
    /\ pc = "exit0"
    /\ futures = << >>
    /\ pos > 0
    /\ pos = Len(stream)
    /\ \A i \in 1..pos : stream[i].type = "timelineDetail"

(* C11: the ledger file on disk is append-only: load_history creates an     *)
(* empty file when there is none and otherwise leaves the file as it is,    *)
(* and every step of a run keeps the content the file had before it as a    *)
(* prefix, so the content at startup stays a prefix and no line is removed, *)
(* reordered or rewritten.                                                  *)
C11_LedgerAppendOnly ==
    [][ /\ pc = "start" =>
              /\ history_exists'
              /\ history_disk' = IF history_exists THEN history_disk ELSE << >>
        /\ Len(history_disk') >= Len(history_disk)
        /\ SubSeq(history_disk', 1, Len(history_disk)) = history_disk ]_vars

\* a ledger that had a line at startup has been reopened and extended
C11_Witness ==
    /\ history_len0 > 0
    /\ pc = "exit0"
    /\ Len(history_disk) > history_len0
    /\ SubSeq(history_disk, 1, history_len0) \in OldLedgers

(* C12: with a non-empty job list the run ends in exit(0) only with the     *)
(* completed counter equal to the number of jobs; while the counter is      *)
(* below it and no unprocessed job's fetch is complete, the fetch loop      *)
(* cannot take a step.                                                      *)
C12_SuccessOnlyWhenAllDone ==
    /\ (pc = "exit0" /\ futures # << >>) => done = Len(futures)
    /\ ( /\ pc = "as_completed"
         /\ done < Len(futures)
         /\ \A i \in 1..Len(futures) :
               futures[i].prog = "queued" => futures[i].st = "pending" )
          => ~ENABLED as_completed

\* two jobs, both processed, then exit(0)
C12_Witness ==
    /\ pc = "exit0"
    /\ Len(futures) = 2
    /\ done = 2

\* the states of the timeline walk, before work_responses is called
Walking == pc \in {"start", "dl_loop_start", "dl_loop"}
Resolved(i) == futures[i].st # "pending"

(* C13: a run whose queued fetches have all resolved, and which was neither *)
(* killed nor interrupted, does not end with an error raised by a fetch: it *)
(* goes on to exit(0).                                                      *)
C13_ResolvedFetchesEndInSuccess ==
    ( /\ pc = "error"
      /\ futures # << >>
      /\ \A i \in 1..Len(futures) : Resolved(i) )
        => futures[cur].st # "failed"

(* C14: when the processing of one job ends in an error, every other job    *)
(* whose fetch completed with a response has its file on disk in full and   *)
(* its DedupKey among the lines this run added to the ledger.               *)
C14_OtherJobsStillWritten ==
    pc = "error" =>
        \A i \in 1..Len(futures) :
            (i # cur /\ futures[i].st \in {"ok", "http_error"}) =>
                /\ disk[futures[i].filepath] = "full"
                /\ futures[i].doc_url_base \in Range(AddedOnDisk)

(* C15 as stated: while the timeline walk is going on, no GET has been      *)
(* issued (no job holds a submitted request).                               *)
C15_NoGetDuringWalk ==
    Walking => futures = << >>

(* C15: GETs are submitted by dl_doc during the walk; what starts only      *)
(* after the walk has ended is the processing of the responses: during the  *)
(* walk no job has been taken up, nothing is counted as completed, and the  *)
(* ledger is neither open nor extended.                                     *)
C15_NoProcessingDuringWalk ==
    Walking =>
        /\ \A i \in 1..Len(futures) : futures[i].prog = "queued"
        /\ done = 0
        /\ ~history_open
        /\ history_buf = << >>
        /\ AddedOnDisk = << >>

\* a GET has been answered while the walk still has documents to receive
C15_Witness ==
    /\ pc = "dl_loop"
    /\ pos < Len(stream)
    /\ \E i \in 1..Len(futures) : futures[i].st = "ok"

(* C16: in every state the ledger file on disk consists of whole lines      *)
(* (it is empty or ends with a line end), every line is one DedupKey, and   *)
(* every line added in this run is the DedupKey of one of its jobs,         *)
(* whatever the order in which the fetches complete.                        *)
C16_WholeLines ==
    /\ history_disk # << >> => history_disk[Len(history_disk)] = "\n"
    /\ \A l \in Range(splitlines(history_disk)) :
           \E u \in Urls : l = DedupKey(u)
    /\ \A l \in Range(AddedOnDisk) :
           \E i \in 1..Len(futures) : l = DedupKey(futures[i].url)

\* two jobs processed in the reverse of the order they were queued in
C16_Witness ==
    /\ pc = "exit0"
    /\ Len(futures) = 2
    /\ AddedOnDisk = << futures[2].doc_url_base, futures[1].doc_url_base >>

(* C18: a job whose GET returned a non-success status is processed like any *)
(* other response: future.result() does not raise for it, and when the run  *)
(* ends in exit(0) its file is on disk in full and its DedupKey is a line   *)
(* this run added to the ledger, which the next run finds in the ledger it  *)
(* starts with.                                                             *)
C18_NoStatusCheck ==
    /\ [](pc = "exit0" =>
            \A i \in 1..Len(futures) :
                futures[i].st = "http_error" =>
                    /\ futures[i].prog = "closed"
                    /\ disk[futures[i].filepath] = "full"
                    /\ futures[i].doc_url_base \in Range(AddedOnDisk))
    /\ [][ /\ ( /\ pc = "result"
                /\ futures[cur].st = "http_error"
                /\ pc' \notin {"result", "killed", "interrupted"} )
                  => pc' = "open"
           /\ (pc = "exit0" /\ run' = run + 1) =>
                 \A i \in 1..Len(futures) :
                     futures[i].st = "http_error" =>
                         futures[i].doc_url_base \in
                             Range(splitlines(SubSeq(history_disk', 1,
                                                     history_len0'))) ]_vars

\* a second run starts with the ledger line of a non-success response
C18_Witness ==
    /\ pc = "exit0"
    /\ run = 1
    /\ \E i \in 1..Len(futures) : futures[i].st = "http_error"
    /\ \A i \in 1..Len(futures) : futures[i].st # "ok"

(* C19: when a run with a non-empty job list has ended in exit(0), every    *)
(* job was processed once: its file is on disk in full, and the lines the   *)
(* run added to the ledger are as many as the jobs, each job's DedupKey     *)
(* being exactly one of them.                                               *)
C19_EveryJobConsumedOnce ==
    (pc = "exit0" /\ futures # << >>) =>
        /\ \A i \in 1..Len(futures) :
               /\ futures[i].prog = "closed"
               /\ disk[futures[i].filepath] = "full"
               /\ Cardinality({ j \in 1..Len(AddedOnDisk) :
                                 AddedOnDisk[j] = futures[i].doc_url_base }) = 1
        /\ Len(AddedOnDisk) = Len(futures)
        /\ done = Len(futures)

\* two jobs processed in the order they were queued in, in a second run
C19_Witness ==
    /\ pc = "exit0"
    /\ run = 2
    /\ Len(futures) = 2
    /\ AddedOnDisk = << futures[1].doc_url_base, futures[2].doc_url_base >>

(* C20: a dl_loop step that receives a message whose type is neither       *)
(* 'timeline' nor 'timelineDetail' leaves the job list, the seen paths, the *)
(* seen URLs, the completed counter, the ledger (on disk and buffered) and  *)
(* the files as they are, sends no request, and stays in the loop; and the  *)
(* messages are received one at a time in arrival order: the position in    *)
(* the stream moves only by one, in the loop.                               *)
C20_UnmatchedIgnored ==
    [][ /\ ( /\ pc = "dl_loop"
             /\ pos < Len(stream)
             /\ pos' = pos + 1
             /\ stream[pos + 1].type \notin {"timeline", "timelineDetail"} )
               => /\ UNCHANGED << futures, filepaths, doc_urls, done, disk,
                                  history_disk, history_buf, sent >>
                  /\ pc' = "dl_loop"
        /\ pos' # pos =>
               \/ pc = "dl_loop" /\ pos' = pos + 1
               \/ pc \in Terminal /\ pos' = 0 ]_vars

\* a message of another type came first, and the document after it was queued
C20_Witness ==
    /\ pc = "dl_loop"
    /\ pos = 2
    /\ stream[1].type = "neonNews"
    /\ stream[2].type = "timelineDetail"
    /\ decision = "Queued"
    /\ sent = 1

(* C17: for every event from_event is given, it yields at least one        *)
(* transaction.                                                             *)
C17_AtLeastOneTransaction ==
    txn.called => Len(txn.out.yielded) >= 1

\* the last space of a title (0 when it has none)
LastSpace(title) ==
    IF \A i \in 1..Len(title) : title[i] # " " THEN 0
    ELSE CHOOSE i \in 1..Len(title) :
             title[i] = " " /\ \A j \in (i + 1)..Len(title) : title[j] # " "

\* the title's last token is taken as the number exactly when it is not
\* empty and made of the characters `chars`
DocNumSplit(chars) ==
    naming.called =>
        LET title == naming.title
            k == LastSpace(title)
            token == SubSeq(title, k + 1, Len(title))
        IN  IF token # << >> /\ \A i \in 1..Len(token) : token[i] \in chars
            THEN /\ naming.doc_type_num = << " " >> \o token
                 /\ naming.doc_type = SubSeq(title, 1, k - 1)
            ELSE /\ naming.doc_type_num = << >>
                 /\ naming.doc_type = title

(* C21 as stated: the last space-separated token of the title becomes       *)
(* doc_num (with a leading space) and the tokens before it the category     *)
(* exactly when it is a bare integer; otherwise doc_num is empty and the    *)
(* category is the whole title.                                             *)
C21_IntegerTokenSplit == DocNumSplit(DecimalChars)

(* C21: the last space-separated token of the title becomes doc_num (with a *)
(* leading space) and the tokens before it, rejoined by spaces, the         *)
(* category exactly when str.isnumeric() holds for it (not empty, every     *)
(* character numeric, which includes characters int() rejects); otherwise   *)
(* doc_num is empty and the category is the whole title.                    *)
C21_NumericTokenSplit == DocNumSplit(NumericChars)

\* 'Kosteninformation 2' in the alphabet of the model
C21_Witness ==
    /\ naming.called
    /\ naming.title = << "K", "K", " ", "2" >>
    /\ naming.doc_type = << "K", "K" >>
    /\ naming.doc_type_num = << " ", "2" >>

(* C26: when details_loop has returned, a response of each of the six       *)
(* subscribed types has been received and stored.                           *)
C26_AllSixStored ==
    details.pc = "returned" => details.stored = DetailTypes

(* C22: every path in the seen-paths list has a job in the job list or is   *)
(* a file on disk, so a descriptor is skipped as 'already in queue' only    *)
(* when its path is queued or on disk.                                      *)
C22_SeenPathQueuedOrOnDisk ==
    \A p \in Range(filepaths) :
        \/ \E i \in 1..Len(futures) : futures[i].filepath = p
        \/ is_file(p)

(* C23: when a later run over the same stream has ended in exit(0), no      *)
(* document of the stream whose DedupKey is not in the ledger has an        *)
(* incomplete file at its path: a file an earlier run left incomplete was   *)
(* fetched again.                                                           *)
C23_IncompleteFileRefetched ==
    (run > 1 /\ pc = "exit0") =>
        \A i \in 1..Len(stream) :
            ( /\ stream[i].type = "timelineDetail"
              /\ DedupKey(stream[i].doc.doc_url)
                     \notin Range(splitlines(history_disk)) )
                => disk[stream[i].doc.filepath] # "partial"

(* C24: the job list and the seen-URL list have the same length and hold    *)
(* the same DedupKeys position by position, no seen DedupKey is a line of   *)
(* the loaded history, and the completed counter stays between 0 and the    *)
(* number of jobs.                                                          *)
C24_TotalIsJobCount ==
    /\ Len(futures) = Len(doc_urls)
    /\ \A i \in 1..Len(futures) : futures[i].doc_url_base = doc_urls[i]
    /\ Range(doc_urls) \cap Range(doc_urls_history) = {}
    /\ 0 <= done
    /\ done <= Len(doc_urls)

\* one document skipped for its ledger line, another queued and counted
C24_Witness ==
    /\ pc = "check_done"
    /\ done = 1
    /\ Len(futures) = 1
    /\ decision = "SkippedUrlInHistory"
    /\ doc_urls_history # << >>

(* C25: the lines of the ledger, those on disk and those still in the       *)
(* handle's buffer, are pairwise different in every state of every run (the *)
(* ledger before the first run having no duplicate lines).                  *)
C25_NoDuplicateLines ==
    LET lines == splitlines(history_disk \o concat(history_buf))
    IN  \A i, j \in 1..Len(lines) : i # j => lines[i] # lines[j]

\* a run after a run that did not end in exit(0) added a line to a ledger
\* that had one
C25_Witness ==
    /\ run = 2
    /\ prev = "stopped"
    /\ pc = "exit0"
    /\ history_len0 > 0
    /\ Len(AddedOnDisk) = 1
    /\ Len(splitlines(history_disk)) = 2

=============================================================================
